---- MODULE Spec2Model ----
(***************************************************************************)
(* ApiManager (src/api-call.py): the menu loop, token acquisition, the     *)
(* authenticated GET helper, validate_data_response and the two workflows. *)
(*                                                                         *)
(* JSON values are pairs <<tag, value>>:                                     *)
(*   "dict"  a function from key strings to JSON values (<<>> when empty)   *)
(*   "list"  a sequence of JSON values                                      *)
(*   "str"   a string        "null"  "null"        "bool"  a BOOLEAN        *)
(* A Python expression that can raise is an operator returning              *)
(* [exc, val]: exc = "" when it returned val, else the exception's name.    *)
(***************************************************************************)
EXTENDS Integers, Sequences, FiniteSets, TLC

VARIABLES
    config,               \* self.config
    pc,                   \* where the process is
    exc,                  \* the unhandled exception that ended the process, "" if none
    actions,              \* menu actions read so far
    user_choice,          \* main: user_choice
    access_token,         \* get_url: access_token
    url_obj,              \* main: url_obj
    route_name, stop_id, description,
    get_vehicle_name, get_vehicle_id, get_vehicle_heading, get_eta_at_stop,
                          \* get_stops_vehicles_on_route: the record variables
    stops,                \* get_stops_vehicles_on_route: stops
    idx,                  \* position of the for loop in stops (1-based)
    first_arrival,        \* get_stops_vehicles_on_route: first_arrival
    requests,             \* HTTP exchanges of the current menu action, in order
    console,              \* lines printed during the current menu action
    logfile,              \* lines appended to logfile.log during the current menu action
    records,              \* record lines printed by the current menu action
    validated,            \* the last call of validate_data_response: <<[arg, exc, ret, out]>>
    issued                \* tokens the token endpoint has handed out so far

vars == <<config, pc, exc, actions, user_choice, access_token, url_obj,
          route_name, stop_id, description, get_vehicle_name, get_vehicle_id,
          get_vehicle_heading, get_eta_at_stop, stops, idx, first_arrival,
          requests, console, logfile, records, validated, issued>>

(***************************************************************************)
(* Bounds                                                                  *)
(***************************************************************************)
MaxStops == 2        \* longest 'stops' list a route response carries
MaxActions == 2      \* menu actions in one run of the process

(***************************************************************************)
(* JSON values and the Python operations the code applies to them          *)
(***************************************************************************)
JStr(s) == <<"str", s>>
JDict(f) == <<"dict", f>>
JList(l) == <<"list", l>>
JNull == <<"null", "null">>
PyFalse == <<"bool", FALSE>>
Tag(x) == x[1]
Val(x) == x[2]
EmptyDict == JDict(<<>>)
EmptyList == JList(<<>>)
EmptyStr == JStr("")

Ok(x) == [exc |-> "", val |-> x]
Raise(e) == [exc |-> e, val |-> JNull]

\* k in s, for two Python strings
StrContains(k, s) ==
    \E i \in 1..(Len(s) - Len(k) + 1) : SubSeq(s, i, i + Len(k) - 1) = k

\* bool(x)
Truthy(x) ==
    CASE Tag(x) = "dict" -> DOMAIN Val(x) # {}
      [] Tag(x) = "list" -> Len(Val(x)) > 0
      [] Tag(x) = "str" -> Len(Val(x)) > 0
      [] Tag(x) = "null" -> FALSE
      [] Tag(x) = "bool" -> Val(x)

\* isinstance(x, dict)
IsDict(x) == Tag(x) = "dict"

\* k in x, k a string literal
PyIn(k, x) ==
    CASE Tag(x) = "dict" -> Ok(k \in DOMAIN Val(x))
      [] Tag(x) = "list" -> Ok(\E i \in 1..Len(Val(x)) : Val(x)[i] = JStr(k))
      [] Tag(x) = "str" -> Ok(StrContains(k, Val(x)))
      [] OTHER -> Raise("TypeError")

\* x[k], k a string literal
PyGetKey(x, k) ==
    CASE Tag(x) = "dict" -> IF k \in DOMAIN Val(x) THEN Ok(Val(x)[k]) ELSE Raise("KeyError")
      [] OTHER -> Raise("TypeError")

\* x[-1]: the last element where x[0] is the first
PyGetLast(x) ==
    CASE Tag(x) = "dict" -> Raise("KeyError")
      [] Tag(x) = "list" -> IF Len(Val(x)) > 0 THEN Ok(Val(x)[Len(Val(x))])
                                         ELSE Raise("IndexError")
      [] Tag(x) = "str" -> IF Len(Val(x)) > 0
                           THEN Ok(JStr(SubSeq(Val(x), Len(Val(x)), Len(Val(x)))))
                           ELSE Raise("IndexError")
      [] OTHER -> Raise("TypeError")

\* x[0]; the key 0 is in no dict parsed from JSON, whose keys are strings
PyGetFirst(x) ==
    CASE Tag(x) = "dict" -> Raise("KeyError")
      [] Tag(x) = "list" -> IF Len(Val(x)) > 0 THEN Ok(Val(x)[1]) ELSE Raise("IndexError")
      [] Tag(x) = "str" -> IF Len(Val(x)) > 0 THEN Ok(JStr(SubSeq(Val(x), 1, 1)))
                                        ELSE Raise("IndexError")
      [] OTHER -> Raise("TypeError")

\* x.get(k, default)
PyGet(x, k, default) ==
    CASE Tag(x) = "dict" -> Ok(IF k \in DOMAIN Val(x) THEN Val(x)[k] ELSE default)
      [] OTHER -> Raise("AttributeError")

\* the items of a list in reverse: reversed(x) where the loop visits x
Reversed(items) == [i \in 1..Len(items) |-> items[Len(items) + 1 - i]]
PyIterReversed(x) ==
    CASE Tag(x) = "list" -> [exc |-> "", items |-> Reversed(Val(x))]
      [] Tag(x) = "str" ->
            [exc |-> "",
             items |-> Reversed([i \in 1..Len(Val(x)) |-> JStr(SubSeq(Val(x), i, i))])]
      [] Tag(x) \in {"null", "bool"} -> [exc |-> "TypeError", items |-> <<>>]

\* the items a for loop over x visits. A dict would be visited key by key in
\* document order, which the dict values here do not keep: no input carries a
\* dict where the code iterates, and the CASE has no arm for it.
PyIter(x) ==
    CASE Tag(x) = "list" -> [exc |-> "", items |-> Val(x)]
      [] Tag(x) = "str" -> [exc |-> "", items |-> [i \in 1..Len(Val(x)) |-> JStr(SubSeq(Val(x), i, i))]]
      [] Tag(x) \in {"null", "bool"} -> [exc |-> "TypeError", items |-> <<>>]

(***************************************************************************)
(* HTTP responses: err = the request raised (connection failure, timeout); *)
(* otherwise status_code, and json = the body parses, to body.             *)
(***************************************************************************)
NetErr == [err |-> TRUE, status_code |-> 0, json |-> FALSE, body |-> JNull]
Http(code) == [err |-> FALSE, status_code |-> code, json |-> FALSE, body |-> JNull]
Json(b) == [err |-> FALSE, status_code |-> 200, json |-> TRUE, body |-> b]
NonJson == Http(200)

\* What a call did: exc ("" = returned), val (the return value), out (lines
\* printed, in order), log (lines given to log_message, in order).
Eff(e, x, o, l) == [exc |-> e, val |-> x, out |-> o, log |-> l]

get_http_status_description(status_code) ==
    CASE status_code = 200 -> "OK - The request has succeeded."
      [] status_code = 400 -> "Bad Request - The server could not understand the request due to invalid syntax or missing parameters."
      [] status_code = 401 -> "Unauthorized - The request requires user authentication or authentication failed."
      [] status_code = 403 -> "Forbidden - The server understood the request but refuses to authorize it."
      [] status_code = 404 -> "Not Found - The requested resource could not be found."
      [] status_code = 500 -> "Internal Server Error - The server encountered an unexpected condition that prevented it from fulfilling the request."
      [] status_code = 502 -> "Bad Gateway - The server received an invalid response from an upstream server."
      [] status_code = 503 -> "Service Unavailable - The server is currently unable to handle the request due to a temporary overload or maintenance."
      [] status_code = 504 -> "Gateway Timeout - The server did not receive a timely response from an upstream server."
      [] status_code = 505 -> "HTTP Version Not Supported - The server does not support the HTTP protocol version used in the request."
      [] OTHER -> "None"

StatusLine(status_code) ==
    ToString(status_code) \o ": " \o get_http_status_description(status_code)

FailedLine(status_code) ==
    "Request failed with status code: " \o ToString(status_code)

MsgInvalidJson == "Invalid JSON response"
MsgEmpty == "Error: Empty data_response"
MsgNoData == "Error: 'data' key is missing in data_response, Check your query again for these parameters"
MsgNoAttributes == "Error: 'attributes' key is missing in data"

format_result(response) ==
    IF response.json
    THEN Eff("", response.body, <<>>, <<>>)
    ELSE Eff("", EmptyDict, <<MsgInvalidJson>>, <<>>)

\* get_api_data, given the response requests.get comes back with
get_api_data(response) ==
    IF response.err
    THEN Eff("RequestException", JNull, <<>>, <<>>)
    ELSE IF response.status_code = 200
    THEN format_result(response)
    ELSE Eff("", EmptyDict, <<StatusLine(response.status_code)>>,
             <<StatusLine(response.status_code)>>)

\* data['attributes'] if 'attributes' in data, else data[0]['attributes'] if
\* 'attributes' in data[0], else the message and False
AttributesOf(data) ==
    LET in_data == PyIn("attributes", data) IN
    IF in_data.exc # "" THEN Eff(in_data.exc, JNull, <<>>, <<>>)
    ELSE IF in_data.val
    THEN LET a == PyGetKey(data, "attributes") IN Eff(a.exc, a.val, <<>>, <<>>)
    ELSE LET first == PyGetFirst(data) IN
         IF first.exc # "" THEN Eff(first.exc, JNull, <<>>, <<>>)
         ELSE LET in_first == PyIn("attributes", first.val) IN
              IF in_first.exc # "" THEN Eff(in_first.exc, JNull, <<>>, <<>>)
              ELSE IF in_first.val
              THEN LET a == PyGetKey(first.val, "attributes") IN
                   Eff(a.exc, a.val, <<>>, <<>>)
              ELSE Eff("", PyFalse, <<MsgNoAttributes>>, <<>>)

validate_data_response(data_response) ==
    IF Truthy(data_response)
    THEN LET has_data == PyIn("data", data_response) IN
         IF has_data.exc # "" THEN Eff(has_data.exc, JNull, <<>>, <<>>)
         ELSE IF has_data.val
         THEN LET data == PyGetKey(data_response, "data") IN
              IF data.exc # "" THEN Eff(data.exc, JNull, <<>>, <<>>)
              ELSE AttributesOf(data.val)
         ELSE Eff("", PyFalse, <<MsgNoData>>, <<>>)
    ELSE Eff("", PyFalse, <<MsgEmpty>>, <<>>)


(***************************************************************************)
(* Token acquisition                                                       *)
(***************************************************************************)
\* str(x) as an f-string renders it; the tokens and IDs the inputs carry
\* are strings or null
Format(x) ==
    CASE Tag(x) = "str" -> Val(x)
      [] Tag(x) = "null" -> "None"
      [] Tag(x) = "bool" -> IF Val(x) THEN "True" ELSE "False"

\* A get_access_token that builds a payload of its own and stores that
SetGrantTypeFresh(payload) == [grant_type |-> "client_credentials"]

\* payload['grant_type'] = 'client_credentials'
SetGrantType(payload) ==
    [k \in DOMAIN payload \cup {"grant_type"} |->
        IF k = "grant_type" THEN "client_credentials" ELSE payload[k]]

\* get_access_token after the payload assignment, given the response
\* requests.post comes back with; val is the Python string returned
get_access_token(response) ==
    IF response.err
    THEN Eff("RequestException", "", <<>>, <<>>)
    ELSE IF response.status_code = 200
    THEN IF ~response.json
         THEN Eff("JSONDecodeError", "", <<>>, <<>>)
         ELSE LET token == PyGetKey(response.body, "access_token") IN
              IF token.exc # ""
              THEN Eff(token.exc, "", <<>>, <<>>)
              ELSE Eff("", "Bearer " \o Format(token.val), <<>>, <<>>)
    ELSE Eff("", "", <<StatusLine(response.status_code)>>,
             <<FailedLine(response.status_code)>>)

\* A get_url that does not look at what get_access_token returned
TokenUnchecked(token) == TRUE

\* get_url: 'Bearer' in access_token
TokenAccepted(token) == StrContains("Bearer", token)

MsgBadToken == "Error: Invalid access_token of the application, could not connect"
MsgBadChoice == "Invalid choice. Please try again."

ContentType == "application/x-www-form-urlencoded"

\* A get_url that leaves the token out of the header
HeaderWithoutToken(token) == [ContentType |-> ContentType, Authorization |-> ""]

Header(token) == [ContentType |-> ContentType, Authorization |-> token]

\* get_url: the url_obj built for a choice
UrlObj(choice, token, text) ==
    CASE choice = "0" -> [Exit |-> "Exit"]
      [] choice = "1" -> [url |-> config.api_urls.beaver_bus,
                           parameters |-> <<>>, header |-> Header(token)]
      [] choice = "2" -> [url |-> config.api_urls.terms,
                           parameters |-> <<>>, header |-> Header(token)]
      [] choice = "3" -> [url_terms |-> config.api_urls.terms,
                           parameters |-> [date |-> text], header |-> Header(token)]
      [] choice = "4" -> [url_routes |-> config.api_urls.routes,
                           url_arrivals |-> config.api_urls.arrivals,
                           url_vehicles |-> config.api_urls.vehicles,
                           route_id |-> text, parameters |-> <<>>,
                           header |-> Header(token)]
      [] OTHER -> <<>>

\* One HTTP exchange, as the requests library saw it
Exchange(method, url, params, auth, response) ==
    [method |-> method, url |-> url, params |-> params, auth |-> auth,
     response |-> response]


(***************************************************************************)
(* Inputs: the configuration file, what the user types, and what the       *)
(* servers answer                                                          *)
(***************************************************************************)
Obj(attributes) == JDict([data |-> JDict([attributes |-> attributes])])
Coll(attributes) == JDict([data |-> JList(<<JDict([attributes |-> attributes])>>)])

\* Envelopes from which no attribute map can be taken
ShapelessBodies ==
    { EmptyDict,
      EmptyList,
      JDict([errors |-> JStr("not found")]),
      JDict([data |-> EmptyDict]),
      JDict([data |-> EmptyList]),
      JDict([data |-> JDict([id |-> JStr("12")])]),
      JDict([data |-> JList(<<EmptyDict>>)]),
      JDict([data |-> JNull]) }

BasePayload == [client_id |-> "id", client_secret |-> "secret"]
ConfigPayloads ==
    { BasePayload,
      [client_id |-> "id", client_secret |-> "secret", grant_type |-> "client_credentials"],
      [client_id |-> "id", client_secret |-> "secret", grant_type |-> "password"] }

ApiUrls ==
    [beaver_bus |-> "https://api/beaverbus", terms |-> "https://api/terms",
     routes |-> "https://api/routes", arrivals |-> "https://api/arrivals",
     vehicles |-> "https://api/vehicles", textbooks |-> "https://api/textbooks"]

TokenUrl == "https://api/oauth2/token"

Choices == {"0", "1", "2", "3", "4", "7"}
RouteIds == {"12"}
Dates == {"2023-09-20"}

TokenResponses ==
    { Json(JDict([access_token |-> JStr("T1")])),
      Json(JDict([access_token |-> JStr("T2")])),
      Json(JDict([error |-> JStr("invalid_client")])),
      NonJson, Http(401), Http(418), NetErr }

\* What requests.get can come back with besides a JSON body
Failures == {NetErr, Http(404), NonJson}

GoodStop(i) ==
    JDict([stopID |-> JStr("S" \o ToString(i)), description |-> JStr("Stop " \o ToString(i))])
BadStop(i) == JDict([description |-> JStr("Stop " \o ToString(i))])

\* Stop lists of up to MaxStops stops, each stop complete or lacking 'stopID'
StopLists ==
    UNION { { JList([i \in 1..n |-> IF good[i] THEN GoodStop(i) ELSE BadStop(i)]) :
                good \in [1..n -> BOOLEAN] } : n \in 0..MaxStops }

RouteAttributes ==
    { JDict([description |-> JStr("Route 12"), stops |-> l]) : l \in StopLists }
    \cup { JDict([stops |-> JList(<<GoodStop(1)>>)]),
           JDict([description |-> JStr("Route 12")]),
           JDict([description |-> JStr("Route 12"), stops |-> JNull]),
           JDict([description |-> JStr("Route 12"), stops |-> JList(<<JNull>>)]),
           JList(<<JStr("Route 12")>>),
           EmptyDict }

RouteResponses ==
    Failures
    \cup { Json(b) : b \in ShapelessBodies }
    \cup { Json(Obj(a)) : a \in RouteAttributes }
    \cup { Json(Coll(JDict([description |-> JStr("Route 12"),
                            stops |-> JList(<<GoodStop(1)>>)]))) }

Arrival(vehicle, eta) == JDict([vehicleID |-> JStr(vehicle), eta |-> JStr(eta)])

ArrivalsAttributes ==
    { EmptyDict,
      JDict([arrivals |-> EmptyList]),
      JDict([arrivals |-> JList(<<Arrival("V1", "5")>>)]),
      JDict([arrivals |-> JList(<<Arrival("V2", "9"), Arrival("V1", "5")>>)]),
      JDict([arrivals |-> JList(<<JDict([eta |-> JStr("5")]), Arrival("V1", "7")>>)]) }

ArrivalsResponses ==
    Failures
    \cup { Json(b) : b \in ShapelessBodies }
    \cup { Json(Obj(a)) : a \in ArrivalsAttributes }
    \cup { Json(Coll(JDict([arrivals |-> JList(<<Arrival("V1", "5")>>)]))) }

VehicleAttributes ==
    { JDict([name |-> JStr("Bus 7"), heading |-> JStr("North")]),
      JDict([name |-> JStr("Bus 7")]),
      EmptyDict }

VehicleResponses ==
    Failures
    \cup { Json(JDict([data |-> EmptyDict])), Json(EmptyDict) }
    \cup { Json(Obj(a)) : a \in VehicleAttributes }

TermAttributes ==
    { JDict([calendarYear |-> JStr("2023"), season |-> JStr("Fall")]),
      JDict([season |-> JStr("Fall")]),
      EmptyDict }

DataResponses ==
    Failures
    \cup { Json(b) : b \in ShapelessBodies }
    \cup { Json(Coll(a)) : a \in TermAttributes }
    \cup { Json(Obj(a)) : a \in TermAttributes }


(***************************************************************************)
(* The state machine                                                       *)
(***************************************************************************)
record_vars == <<route_name, stop_id, description, get_vehicle_name,
                 get_vehicle_id, get_vehicle_heading, get_eta_at_stop>>
loop_vars == <<stops, idx, first_arrival>>

Init ==
    /\ config \in { [access_token |-> [url |-> TokenUrl, payload |-> p],
                     api_urls |-> ApiUrls] : p \in ConfigPayloads }
    /\ pc = "menu"
    /\ exc = ""
    /\ actions = 0
    /\ user_choice = ""
    /\ access_token = ""
    /\ url_obj = <<>>
    /\ route_name = EmptyStr /\ stop_id = EmptyStr /\ description = EmptyStr
    /\ get_vehicle_name = EmptyStr /\ get_vehicle_id = EmptyStr
    /\ get_vehicle_heading = EmptyStr /\ get_eta_at_stop = EmptyStr
    /\ stops = <<>> /\ idx = 0 /\ first_arrival = JNull
    /\ requests = <<>> /\ console = <<>> /\ logfile = <<>> /\ records = <<>>
    /\ validated = <<>>
    /\ issued = {}

\* The process goes on at `next`, or ends on the unhandled exception e
Continue(e, next) ==
    /\ pc' = IF e # "" THEN "crashed" ELSE next
    /\ exc' = e

\* One call of validate_data_response, as `validated` keeps it
Call(arg, eff) == <<[arg |-> arg, exc |-> eff.exc, ret |-> eff.val, out |-> eff.out]>>

MenuLines ==
    << "Which API data do you want to check?",
       "0. Quit", "1. Beavers Bus", "2. Terms",
       "3. Search Text Books of a Term by a custom/any Date",
       "4. Get Details of a Vehicle and its Stops given a specified Route, with ETA and current destination" >>

\* main: show_tasks() and get_user_choice(). What the previous menu action
\* printed, logged and requested is no longer looked at, and the locals of
\* the handler that returned are gone.
get_user_choice(choice) ==
    /\ pc = "menu"
    /\ actions < MaxActions
    /\ actions' = actions + 1
    /\ user_choice' = choice
    /\ pc' = "get_url"
    /\ console' = MenuLines
    /\ requests' = <<>> /\ logfile' = <<>> /\ records' = <<>> /\ validated' = <<>>
    /\ access_token' = "" /\ url_obj' = <<>>
    /\ route_name' = EmptyStr /\ stop_id' = EmptyStr /\ description' = EmptyStr
    /\ get_vehicle_name' = EmptyStr /\ get_vehicle_id' = EmptyStr
    /\ get_vehicle_heading' = EmptyStr /\ get_eta_at_stop' = EmptyStr
    /\ stops' = <<>> /\ idx' = 0 /\ first_arrival' = JNull
    /\ UNCHANGED <<config, exc, issued>>

\* What input() is asked for inside get_url
Prompted(choice) ==
    CASE choice = "3" -> Dates
      [] choice = "4" -> RouteIds
      [] OTHER -> {""}

\* main after get_url has returned url_obj: where the choice leads
Dispatch(choice) ==
    CASE choice = "0" -> "quit"
      [] choice \in {"1", "2"} -> "get_api_data"
      [] choice = "3" -> "text_books"
      [] choice = "4" -> "route"
      [] OTHER -> "menu"

\* main: url_obj = self.get_url(user_choice), up to the dispatch on the choice
get_url(response, text) ==
    /\ pc = "get_url"
    /\ text \in Prompted(user_choice)
    /\ LET payload == SetGrantType(config.access_token.payload)
           token == get_access_token(response)
           said == IF token.exc # "" THEN <<>>
                   ELSE IF ~TokenAccepted(token.val) THEN <<MsgBadToken>>
                   ELSE IF user_choice = "0" THEN <<"Exit">>
                   ELSE IF user_choice \notin {"0", "1", "2", "3", "4"} THEN <<MsgBadChoice>>
                   ELSE <<>>
       IN  /\ config' = [config EXCEPT !.access_token.payload = payload]
           /\ requests' = Append(requests,
                  Exchange("POST", config.access_token.url, payload, "", response))
           /\ issued' = IF token.exc = "" /\ token.val # ""
                        THEN issued \cup {token.val} ELSE issued
           /\ console' = console \o token.out \o said
           /\ logfile' = logfile \o token.log
           /\ access_token' = token.val
           /\ IF token.exc # "" THEN Continue(token.exc, "crashed") /\ url_obj' = url_obj
              ELSE IF ~TokenAccepted(token.val)
              THEN pc' = "exited" /\ exc' = exc /\ url_obj' = url_obj
              ELSE /\ url_obj' = UrlObj(user_choice, token.val, text)
                   /\ Continue("", Dispatch(user_choice))
    /\ UNCHANGED <<actions, user_choice, record_vars, loop_vars, records, validated>>

\* main: self.get_api_data(url_obj['url'], ...) for the choices 1 and 2
main_get_api_data(response) ==
    /\ pc = "get_api_data"
    /\ LET got == get_api_data(response)
       IN  /\ requests' = Append(requests,
                  Exchange("GET", url_obj.url, url_obj.parameters,
                           url_obj.header.Authorization, response))
           /\ console' = console \o got.out
           /\ logfile' = logfile \o got.log
           /\ Continue(got.exc, "menu")
    /\ UNCHANGED <<config, actions, user_choice, access_token, url_obj, record_vars,
                   loop_vars, records, validated, issued>>


MsgNoYear == "Error: 'calendarYear' attribute is missing or empty"
MsgNoSeason == "Error: 'season' attribute is missing or empty"
MsgNoTermAttributes == "Error: 'attributes' key is missing in the first term object"
MsgNoTermData == "Error: 'data' key is missing or empty, Check your query again for these parameters"

\* get_text_books_with_term_date from `if terms_data_response:` on
TermsBlock(terms_data_response) ==
    IF ~Truthy(terms_data_response) THEN Eff("", JNull, <<>>, <<>>)
    ELSE
    LET terms_data == PyGet(terms_data_response, "data", EmptyList) IN
    IF terms_data.exc # "" THEN Eff(terms_data.exc, JNull, <<>>, <<>>)
    ELSE IF ~Truthy(terms_data.val) THEN Eff("", JNull, <<MsgNoTermData>>, <<>>)
    ELSE
    LET first_term == PyGetFirst(terms_data.val) IN
    IF first_term.exc # "" THEN Eff(first_term.exc, JNull, <<>>, <<>>)
    ELSE
    LET has == PyIn("attributes", first_term.val) IN
    IF has.exc # "" THEN Eff(has.exc, JNull, <<>>, <<>>)
    ELSE IF ~has.val THEN Eff("", JNull, <<MsgNoTermAttributes>>, <<>>)
    ELSE
    LET attributes == PyGetKey(first_term.val, "attributes") IN
    IF attributes.exc # "" THEN Eff(attributes.exc, JNull, <<>>, <<>>)
    ELSE
    LET calendar_year == PyGet(attributes.val, "calendarYear", JNull)
        season == PyGet(attributes.val, "season", JNull)
    IN  IF calendar_year.exc # "" THEN Eff(calendar_year.exc, JNull, <<>>, <<>>)
        ELSE Eff("", JNull,
                 (IF ~Truthy(calendar_year.val) THEN <<MsgNoYear>> ELSE <<>>)
                 \o (IF Tag(season.val) = "null" THEN <<MsgNoSeason>> ELSE <<>>),
                 <<>>)

get_text_books_with_term_date(response) ==
    /\ pc = "text_books"
    /\ LET got == get_api_data(response)
           rest == IF got.exc # "" THEN Eff("", JNull, <<>>, <<>>) ELSE TermsBlock(got.val)
       IN  /\ requests' = Append(requests,
                  Exchange("GET", url_obj.url_terms, url_obj.parameters,
                           url_obj.header.Authorization, response))
           /\ console' = console \o got.out \o rest.out
           /\ logfile' = logfile \o got.log
           /\ Continue(IF got.exc # "" THEN got.exc ELSE rest.exc, "menu")
    /\ UNCHANGED <<config, actions, user_choice, access_token, url_obj, record_vars,
                   loop_vars, records, validated, issued>>

(***************************************************************************)
(* get_stops_vehicles_on_route                                             *)
(***************************************************************************)
MsgNoRouteName == "Error: 'description' key is missing in route attributes"
MsgNotDict == "Error: 'route_attributes' is not a dictionary"
MsgNoArrivals == "Error: 'arrivals' key is missing or empty in arrivals attributes"
MsgNoVehicleKeys == "Error: 'vehicleID' or 'eta' key is missing in the first arrival object"
MsgNoVehicleName == "Error: 'name' or 'heading' key is missing in vehicles attributes"
MsgNoStopKeys == "Error: 'stopID' or 'description' key is missing in stop object, Check your query again for these parameters"

\* k1 in x and k2 in x
BothIn(k1, k2, x) ==
    LET a == PyIn(k1, x) IN
    IF a.exc # "" THEN a
    ELSE IF ~a.val THEN Ok(FALSE)
    ELSE PyIn(k2, x)

\* The line printed at the end of an iteration of the stop loop, with the
\* number of requests made before it
Record(name, stop, stop_name, vehicle_name, vehicle, heading, eta, made) ==
    [route_id |-> url_obj.route_id, route_name |-> name, stop_id |-> stop,
     description |-> stop_name, vehicle_name |-> vehicle_name,
     vehicle_id |-> vehicle, heading |-> heading, eta |-> eta, made |-> made]

\* The for loop after one iteration: the next stop, or the return to main
Advance ==
    /\ idx' = idx + 1
    /\ Continue("", IF idx = Len(stops) THEN "menu" ELSE "stops")

\* From the route request to the head of the for loop
get_route(response) ==
    /\ pc = "route"
    /\ LET got == get_api_data(response)
           checked == validate_data_response(got.val)
           route_attributes == checked.val
           named == IsDict(route_attributes)
                    /\ PyIn("description", route_attributes).val
           listed == IF IsDict(route_attributes)
                     THEN PyGet(route_attributes, "stops", EmptyList).val
                     ELSE EmptyList
           items == PyIter(listed)
           said == (IF named THEN <<>> ELSE <<MsgNoRouteName>>)
                   \o (IF IsDict(route_attributes) THEN <<>> ELSE <<MsgNotDict>>)
       IN  /\ requests' = Append(requests,
                  Exchange("GET", url_obj.url_routes \o "/" \o url_obj.route_id,
                           url_obj.parameters, url_obj.header.Authorization, response))
           /\ logfile' = logfile \o got.log
           /\ IF got.exc # ""
              THEN /\ Continue(got.exc, "crashed")
                   /\ console' = console \o got.out
                   /\ UNCHANGED <<validated, route_name, stops, idx>>
              ELSE IF checked.exc # ""
              THEN /\ Continue(checked.exc, "crashed")
                   /\ console' = console \o got.out
                   /\ validated' = Call(got.val, checked)
                   /\ UNCHANGED <<route_name, stops, idx>>
              ELSE IF ~Truthy(route_attributes)
              THEN /\ Continue("", "menu")
                   /\ console' = console \o got.out \o checked.out
                   /\ validated' = Call(got.val, checked)
                   /\ UNCHANGED <<route_name, stops, idx>>
              ELSE /\ console' = console \o got.out \o checked.out \o said
                   /\ validated' = Call(got.val, checked)
                   /\ route_name' = IF named
                                    THEN PyGetKey(route_attributes, "description").val
                                    ELSE route_name
                   /\ IF items.exc # ""
                      THEN Continue(items.exc, "crashed") /\ UNCHANGED <<stops, idx>>
                      ELSE IF Len(items.items) = 0
                      THEN Continue("", "menu") /\ UNCHANGED <<stops, idx>>
                      ELSE Continue("", "stops") /\ stops' = items.items /\ idx' = 1
    /\ UNCHANGED <<config, actions, user_choice, access_token, url_obj, stop_id,
                   description, get_vehicle_name, get_vehicle_id, get_vehicle_heading,
                   get_eta_at_stop, first_arrival, records, issued>>


\* An iteration for a stop that fails `'stopID' in stop and 'description' in
\* stop`: the else branch, then the print at the end of the loop body
stop_without_keys ==
    /\ pc = "stops"
    /\ LET has == BothIn("stopID", "description", stops[idx]) IN
       /\ (IF has.exc # "" THEN TRUE ELSE ~has.val)
       /\ IF has.exc # ""
          THEN Continue(has.exc, "crashed") /\ UNCHANGED <<console, records, idx>>
          ELSE /\ console' = Append(console, MsgNoStopKeys)
               /\ records' = Append(records,
                      Record(route_name, stop_id, description, get_vehicle_name,
                             get_vehicle_id, get_vehicle_heading, get_eta_at_stop,
                             Len(requests)))
               /\ Advance
    /\ UNCHANGED <<config, actions, user_choice, access_token, url_obj, record_vars,
                   stops, first_arrival, requests, logfile, validated, issued>>

\* An iteration for a stop that has both keys, from the arrivals request to
\* the vehicle request, or to the print when no vehicle request is made
stop_arrivals(response) ==
    /\ pc = "stops"
    /\ LET has == BothIn("stopID", "description", stops[idx]) IN
       has.exc = "" /\ has.val
    /\ LET stop == stops[idx]
           id == PyGetKey(stop, "stopID")
           name == PyGetKey(stop, "description")
           parameters == [stopID |-> id.val, routeID |-> url_obj.route_id]
           got == get_api_data(response)
           checked == validate_data_response(got.val)
           arrivals_attributes == checked.val
           listed == /\ IsDict(arrivals_attributes)
                     /\ PyIn("arrivals", arrivals_attributes).val
                     /\ Truthy(PyGetKey(arrivals_attributes, "arrivals").val)
           first == PyGetFirst(PyGetKey(arrivals_attributes, "arrivals").val)
           has == BothIn("vehicleID", "eta", first.val)
           vehicle == PyGetKey(first.val, "vehicleID")
           eta == PyGetKey(first.val, "eta")
           made == Len(requests) + 1
       IN  IF id.exc # "" \/ name.exc # ""
           THEN /\ Continue(IF id.exc # "" THEN id.exc ELSE name.exc, "crashed")
                /\ stop_id' = IF id.exc # "" THEN stop_id ELSE id.val
                /\ UNCHANGED <<description, url_obj, requests, console, logfile,
                               validated, first_arrival, get_vehicle_id,
                               get_eta_at_stop, records, idx>>
           ELSE
           /\ stop_id' = id.val
           /\ description' = name.val
           /\ url_obj' = [url_obj EXCEPT !.parameters = parameters]
           /\ requests' = Append(requests,
                  Exchange("GET", url_obj.url_arrivals, parameters,
                           url_obj.header.Authorization, response))
           /\ logfile' = logfile \o got.log
           /\ IF got.exc # ""
              THEN /\ Continue(got.exc, "crashed")
                   /\ console' = console \o got.out
                   /\ UNCHANGED <<validated, first_arrival, get_vehicle_id,
                                  get_eta_at_stop, records, idx>>
              ELSE IF checked.exc # ""
              THEN /\ Continue(checked.exc, "crashed")
                   /\ console' = console \o got.out
                   /\ validated' = Call(got.val, checked)
                   /\ UNCHANGED <<first_arrival, get_vehicle_id, get_eta_at_stop,
                                  records, idx>>
              ELSE IF ~listed
              THEN /\ console' = console \o got.out \o checked.out \o <<MsgNoArrivals>>
                   /\ validated' = Call(got.val, checked)
                   /\ records' = Append(records,
                          Record(route_name, id.val, name.val, get_vehicle_name,
                                 get_vehicle_id, get_vehicle_heading, get_eta_at_stop,
                                 made))
                   /\ Advance
                   /\ UNCHANGED <<first_arrival, get_vehicle_id, get_eta_at_stop>>
              ELSE IF first.exc # "" \/ has.exc # ""
              THEN /\ Continue(IF first.exc # "" THEN first.exc ELSE has.exc, "crashed")
                   /\ console' = console \o got.out \o checked.out
                   /\ validated' = Call(got.val, checked)
                   /\ first_arrival' = IF first.exc # "" THEN first_arrival ELSE first.val
                   /\ UNCHANGED <<get_vehicle_id, get_eta_at_stop, records, idx>>
              ELSE IF ~has.val
              THEN /\ console' = console \o got.out \o checked.out \o <<MsgNoVehicleKeys>>
                   /\ validated' = Call(got.val, checked)
                   /\ first_arrival' = first.val
                   /\ records' = Append(records,
                          Record(route_name, id.val, name.val, get_vehicle_name,
                                 get_vehicle_id, get_vehicle_heading, get_eta_at_stop,
                                 made))
                   /\ Advance
                   /\ UNCHANGED <<get_vehicle_id, get_eta_at_stop>>
              ELSE IF vehicle.exc # "" \/ eta.exc # ""
              THEN /\ Continue(IF vehicle.exc # "" THEN vehicle.exc ELSE eta.exc, "crashed")
                   /\ console' = console \o got.out \o checked.out
                   /\ validated' = Call(got.val, checked)
                   /\ first_arrival' = first.val
                   /\ get_vehicle_id' = IF vehicle.exc # "" THEN get_vehicle_id
                                        ELSE vehicle.val
                   /\ UNCHANGED <<get_eta_at_stop, records, idx>>
              ELSE /\ console' = console \o got.out \o checked.out
                   /\ validated' = Call(got.val, checked)
                   /\ first_arrival' = first.val
                   /\ get_vehicle_id' = vehicle.val
                   /\ get_eta_at_stop' = eta.val
                   /\ Continue("", "vehicle")
                   /\ UNCHANGED <<records, idx>>
    /\ UNCHANGED <<config, actions, user_choice, access_token, route_name,
                   get_vehicle_name, get_vehicle_heading, stops, issued>>

\* The rest of that iteration: the vehicle request, then the print
stop_vehicle(response) ==
    /\ pc = "vehicle"
    /\ LET got == get_api_data(response)
           checked == validate_data_response(got.val)
           vehicle_attributes == checked.val
           found == /\ IsDict(vehicle_attributes)
                    /\ PyIn("name", vehicle_attributes).val
                    /\ PyIn("heading", vehicle_attributes).val
           name == IF found THEN PyGetKey(vehicle_attributes, "name").val
                   ELSE get_vehicle_name
           heading == IF found THEN PyGetKey(vehicle_attributes, "heading").val
                      ELSE get_vehicle_heading
       IN  /\ requests' = Append(requests,
                  Exchange("GET", url_obj.url_vehicles \o "/" \o Format(get_vehicle_id),
                           <<>>, url_obj.header.Authorization, response))
           /\ logfile' = logfile \o got.log
           /\ IF got.exc # ""
              THEN /\ Continue(got.exc, "crashed")
                   /\ console' = console \o got.out
                   /\ UNCHANGED <<validated, get_vehicle_name, get_vehicle_heading,
                                  records, idx>>
              ELSE IF checked.exc # ""
              THEN /\ Continue(checked.exc, "crashed")
                   /\ console' = console \o got.out
                   /\ validated' = Call(got.val, checked)
                   /\ UNCHANGED <<get_vehicle_name, get_vehicle_heading, records, idx>>
              ELSE /\ console' = console \o got.out \o checked.out
                                 \o (IF found THEN <<>> ELSE <<MsgNoVehicleName>>)
                   /\ validated' = Call(got.val, checked)
                   /\ get_vehicle_name' = name
                   /\ get_vehicle_heading' = heading
                   /\ records' = Append(records,
                          Record(route_name, stop_id, description, name,
                                 get_vehicle_id, heading, get_eta_at_stop,
                                 Len(requests) + 1))
                   /\ Advance
    /\ UNCHANGED <<config, actions, user_choice, access_token, url_obj, route_name,
                   stop_id, description, get_vehicle_id, get_eta_at_stop, stops,
                   first_arrival, issued>>

Next ==
    \/ \E choice \in Choices : get_user_choice(choice)
    \/ \E response \in TokenResponses, text \in Dates \cup RouteIds \cup {""} :
          get_url(response, text)
    \/ \E response \in DataResponses : main_get_api_data(response)
    \/ \E response \in DataResponses : get_text_books_with_term_date(response)
    \/ \E response \in RouteResponses : get_route(response)
    \/ stop_without_keys
    \/ \E response \in ArrivalsResponses : stop_arrivals(response)
    \/ \E response \in VehicleResponses : stop_vehicle(response)

Spec == Init /\ [][Next]_vars

(***************************************************************************)
(* Properties                                                              *)
(***************************************************************************)
\* The menu action is the route workflow, and its route request was made
InWorkflow == user_choice = "4" /\ Len(requests) >= 2

\* The exchange that answered the route request
RouteExchange == requests[2]

\* The five-case rule for an envelope: what is returned and what is reported
ExtractAttributes(envelope) ==
    IF ~Truthy(envelope)
    THEN [ret |-> PyFalse, out |-> <<MsgEmpty>>]
    ELSE IF ~(Tag(envelope) = "dict" /\ "data" \in DOMAIN Val(envelope))
    THEN [ret |-> PyFalse, out |-> <<MsgNoData>>]
    ELSE LET data == Val(envelope)["data"] IN
         IF Tag(data) = "dict" /\ "attributes" \in DOMAIN Val(data)
         THEN [ret |-> Val(data)["attributes"], out |-> <<>>]
         ELSE IF /\ Tag(data) = "list" /\ Len(Val(data)) > 0
                 /\ Tag(Val(data)[1]) = "dict" /\ "attributes" \in DOMAIN Val(Val(data)[1])
         THEN [ret |-> Val(Val(data)[1])["attributes"], out |-> <<>>]
         ELSE [ret |-> PyFalse, out |-> <<MsgNoAttributes>>]

\* C1: every call of validate_data_response returns, without raising, what
\* the five-case rule gives for its envelope: the attribute map, or the
\* failure value with the message of the case.
C1_FiveCaseRule ==
    \A i \in DOMAIN validated :
        /\ validated[i].exc = ""
        /\ validated[i].ret = ExtractAttributes(validated[i].arg).ret
        /\ validated[i].out = ExtractAttributes(validated[i].arg).out

\* The k-th stop of the route passes the check on 'stopID' and 'description'
HasKeys(k) ==
    LET has == BothIn("stopID", "description", stops[k]) IN
    has.exc = "" /\ has.val

\* Requests made during the k-th iteration of the stop loop
MadeBefore(k) == IF k = 1 THEN 2 ELSE records[k - 1].made
RequestsOf(k) == records[k].made - MadeBefore(k)

\* The record of iteration k repeats a stop or vehicle value of an earlier record
CarriesEarlier(k) ==
    \E j \in 1..(k - 1) :
        \/ records[k].stop_id = records[j].stop_id /\ records[j].stop_id # EmptyStr
        \/ records[k].description = records[j].description
              /\ records[j].description # EmptyStr
        \/ records[k].vehicle_id = records[j].vehicle_id
              /\ records[j].vehicle_id # EmptyStr
        \/ records[k].eta = records[j].eta /\ records[j].eta # EmptyStr

\* C2: for a stop that lacks 'stopID' or 'description' no request is made
\* and the record output for it carries no stop ID, stop name, vehicle or
\* ETA of an earlier stop.
C2_SkipWithoutStale ==
    \A k \in DOMAIN records :
        ~HasKeys(k) => RequestsOf(k) = 0 /\ ~CarriesEarlier(k)

\* The arrivals response resolves to an attribute map without a non-empty
\* 'arrivals' list
LacksArrivals(response) ==
    /\ ~response.err /\ response.status_code = 200 /\ response.json
    /\ LET found == ExtractAttributes(response.body).ret IN
       /\ Tag(found) = "dict"
       /\ "arrivals" \in DOMAIN Val(found) => Val(found)["arrivals"] = EmptyList

\* C3: the record of a stop whose arrivals response has no arrivals has the
\* vehicle number, ETA, vehicle name and heading empty and carries that
\* stop's own ID and description, whatever earlier stops returned.
C3_EmptyVehicleFields ==
    \A k \in DOMAIN records :
        (HasKeys(k) /\ RequestsOf(k) = 1
            /\ LacksArrivals(requests[records[k].made].response))
        => /\ records[k].vehicle_id = EmptyStr
           /\ records[k].eta = EmptyStr
           /\ records[k].vehicle_name = EmptyStr
           /\ records[k].heading = EmptyStr
           /\ records[k].stop_id = Val(stops[k])["stopID"]
           /\ records[k].description = Val(stops[k])["description"]
           /\ records[k].route_name = route_name

\* Every request of the menu action was answered by a server
AllAnswered == \A i \in DOMAIN requests : ~requests[i].response.err

\* C4: whatever the servers answer to the route, arrivals and vehicle
\* requests, the route workflow does not end on an unhandled exception.
C4_NoCrash ==
    ~(InWorkflow /\ AllAnswered /\ pc = "crashed")

\* C5: get_access_token returns to its caller, whatever the token request
\* came back with: the process never ends on an exception inside it.
C5_TokenNeverThrows ==
    (Len(requests) = 1 /\ requests[1].method = "POST")
    => LET response == requests[1].response IN
       (\/ response.err
        \/ response.status_code # 200
        \/ /\ response.json /\ Tag(response.body) = "dict"
           /\ "access_token" \notin DOMAIN Val(response.body))
       => pc # "crashed" /\ ~StrContains("Bearer", access_token)

\* The response carries a token: status 200 and a JSON object with 'access_token'
YieldsToken(response) ==
    /\ ~response.err /\ response.status_code = 200 /\ response.json
    /\ Tag(response.body) = "dict" /\ "access_token" \in DOMAIN Val(response.body)

\* The token request of the current menu action did not yield a token
TokenFailed == Len(requests) >= 1 /\ ~YieldsToken(requests[1].response)

Gets == {i \in DOMAIN requests : requests[i].method = "GET"}

\* C6: every data GET carries in its Authorization header a token the token
\* endpoint handed out, and after a token request that yielded no 'Bearer'
\* token the process has ended without issuing any GET.
C6_FailFast ==
    /\ \A i \in Gets :
          requests[i].auth \in issued /\ StrContains("Bearer", requests[i].auth)
    /\ TokenFailed => Gets = {} /\ pc \in {"exited", "crashed"}

\* A second menu action whose token request was refused: the process exited
C6_Witness ==
    actions = 2 /\ pc = "exited" /\ TokenFailed /\ issued # {}

\* C7: a menu action issues exactly one token request, before any GET, and
\* every GET of the action carries the token that request returned.
C7_OneTokenPerAction ==
    /\ \A i \in DOMAIN requests : (requests[i].method = "POST") <=> (i = 1)
    /\ pc \notin {"menu", "get_url"} => Len(requests) >= 1
    /\ (pc = "menu" /\ actions > 0) => Len(requests) >= 1
    /\ \A i \in Gets :
          /\ YieldsToken(requests[1].response)
          /\ requests[i].auth
                = "Bearer " \o Format(Val(requests[1].response.body)["access_token"])

\* A second route workflow that has made its route, arrivals and vehicle
\* requests with a token other than the first action's
C7_Witness ==
    /\ actions = 2 /\ InWorkflow /\ Cardinality(issued) = 2
    /\ Len(records) >= 2
    /\ \E i, j, k \in Gets :
          /\ i < j /\ j < k
          /\ requests[i].url = ApiUrls.routes \o "/12"
          /\ requests[j].url = ApiUrls.arrivals
          /\ requests[k].url = ApiUrls.vehicles \o "/V1"

\* The route response resolves to no attribute map: a status other than
\* 200, a body that is not JSON, or an envelope the five-case rule fails on
RouteUnresolved ==
    LET response == RouteExchange.response IN
    /\ ~response.err
    /\ \/ response.status_code # 200
       \/ ~response.json
       \/ ExtractAttributes(response.body).ret = PyFalse

\* C8: when the route response resolves to no attribute map, the error is
\* reported, no arrivals or vehicle request follows and no record is output.
C8_RouteAbort ==
    (InWorkflow /\ RouteUnresolved)
    => /\ Len(console) > Len(MenuLines)
       /\ Len(requests) = 2
       /\ records = <<>>

StatusCodes == {401, 404, 418}

\* The lines that report an HTTP status, an invalid body or a missing key
ErrorLines ==
    { StatusLine(c) : c \in StatusCodes }
    \cup { MsgInvalidJson, MsgEmpty, MsgNoData, MsgNoAttributes, MsgNoYear,
           MsgNoSeason, MsgNoTermAttributes, MsgNoTermData, MsgNoRouteName,
           MsgNotDict, MsgNoArrivals, MsgNoVehicleKeys, MsgNoVehicleName,
           MsgNoStopKeys }

\* The log holds an entry for the error a console line reports
Logged(line) ==
    \E j \in DOMAIN logfile :
        \/ logfile[j] = line
        \/ \E c \in StatusCodes : line = StatusLine(c) /\ logfile[j] = FailedLine(c)

\* C9: every error line printed to the console has an entry in the log.
C9_ErrorsLogged ==
    \A i \in DOMAIN console : console[i] \in ErrorLines => Logged(console[i])

\* C10 as stated: no step changes self.config.
C10_ConfigImmutable == [][config' = config]_vars

\* C10 as amended: a step leaves the URLs, client_id and client_secret as
\* they are; all it may change in self.config is payload['grant_type'],
\* to 'client_credentials', after which self.config never changes.
C10_OnlyGrantTypeSet ==
    [][LET old == config.access_token.payload
           new == config'.access_token.payload
       IN  /\ config'.api_urls = config.api_urls
           /\ config'.access_token.url = config.access_token.url
           /\ DOMAIN config' = DOMAIN config
           /\ DOMAIN config'.access_token = DOMAIN config.access_token
           /\ DOMAIN new = DOMAIN old \cup {"grant_type"}
           /\ \A k \in DOMAIN old \ {"grant_type"} : new[k] = old[k]
           /\ new["grant_type"] = "client_credentials"
       \/ config' = config]_vars

\* A second token request has been made, and a GET after it, with the
\* payload holding the credentials and the grant type
C10_Witness ==
    /\ actions = 2 /\ Len(requests) >= 2
    /\ config.access_token.payload = SetGrantType(BasePayload)
    /\ config.api_urls = ApiUrls

\* The stops the route request was answered with, in the order of the reply
RouteStops ==
    LET r == RouteExchange.response
        a == ExtractAttributes(r.body).ret
    IN  IF /\ ~r.err /\ r.status_code = 200 /\ r.json
           /\ Tag(a) = "dict" /\ "stops" \in DOMAIN Val(a)
           /\ Tag(Val(a)["stops"]) = "list"
        THEN Val(Val(a)["stops"])
        ELSE <<>>

\* The k-th stop of the reply has both 'stopID' and 'description'
GoodRouteStop(k) ==
    /\ Tag(RouteStops[k]) = "dict"
    /\ {"stopID", "description"} \subseteq DOMAIN Val(RouteStops[k])

\* Request i is a GET of the arrivals endpoint, or of one vehicle
IsArrivals(i) ==
    requests[i].method = "GET" /\ requests[i].url = config.api_urls.arrivals
VehiclePrefix == config.api_urls.vehicles \o "/"
IsVehicle(i) ==
    /\ requests[i].method = "GET"
    /\ Len(requests[i].url) >= Len(VehiclePrefix)
    /\ SubSeq(requests[i].url, 1, Len(VehiclePrefix)) = VehiclePrefix

\* The arrivals requests made for the k-th stop of the reply on the asked route
ArrivalsFor(k) ==
    {i \in 3..Len(requests) :
        /\ IsArrivals(i)
        /\ requests[i].params = [stopID |-> Val(RouteStops[k])["stopID"],
                                 routeID |-> url_obj.route_id]}

\* The arrivals list a response carries (empty when it carries none)
ArrivalsListed(response) ==
    LET a == ExtractAttributes(response.body).ret IN
    IF /\ ~response.err /\ response.status_code = 200 /\ response.json
       /\ Tag(a) = "dict" /\ "arrivals" \in DOMAIN Val(a)
       /\ Tag(Val(a)["arrivals"]) = "list"
    THEN Val(Val(a)["arrivals"])
    ELSE <<>>

\* The first element of the response's arrivals list has 'vehicleID' and 'eta'
FirstHasVehicle(response) ==
    /\ Len(ArrivalsListed(response)) > 0
    /\ Tag(ArrivalsListed(response)[1]) = "dict"
    /\ {"vehicleID", "eta"} \subseteq DOMAIN Val(ArrivalsListed(response)[1])

\* C11: in the route workflow every request after the route request is an
\* arrivals GET or a vehicle GET; every arrivals GET carries the stopID of a
\* stop that has 'stopID' and 'description' and the asked routeID; such a
\* stop gets at most one arrivals GET, and exactly one once its iteration is
\* over; a vehicle GET comes directly after an arrivals GET whose response
\* lists a first arrival with 'vehicleID' and 'eta', and is addressed to
\* that first arrival's vehicleID. Nothing is requested twice.
C11_CallChain ==
    InWorkflow =>
        /\ \A i \in 3..Len(requests) :
              /\ IsArrivals(i) \/ IsVehicle(i)
              /\ IsArrivals(i) =>
                    \E k \in DOMAIN RouteStops :
                        GoodRouteStop(k) /\ i \in ArrivalsFor(k)
              /\ IsVehicle(i) =>
                    /\ i > 3 /\ IsArrivals(i - 1)
                    /\ FirstHasVehicle(requests[i - 1].response)
                    /\ requests[i].url = VehiclePrefix \o
                          Format(Val(ArrivalsListed(requests[i - 1].response)[1])["vehicleID"])
        /\ \A k \in DOMAIN RouteStops :
              GoodRouteStop(k) =>
                  /\ Cardinality(ArrivalsFor(k)) <= 1
                  /\ k \in DOMAIN records => Cardinality(ArrivalsFor(k)) = 1
                  /\ k > Len(records) + 1 => ArrivalsFor(k) = {}

\* Two stops with keys were worked through: the arrivals request of the
\* first failed and was followed by the arrivals request of the second,
\* whose response lists two arrivals, and the vehicle request went to the
\* first of them.
C11_Witness ==
    /\ InWorkflow /\ Len(records) = 2 /\ Len(requests) = 5
    /\ GoodRouteStop(1) /\ GoodRouteStop(2)
    /\ IsArrivals(3) /\ requests[3].response = Http(404)
    /\ IsArrivals(4) /\ Len(ArrivalsListed(requests[4].response)) = 2
    /\ requests[5].url = VehiclePrefix \o "V2"

\* The requests made for the k-th stop of the reply: its arrivals request
\* and the vehicle request that follows it
RequestsFor(k) ==
    ArrivalsFor(k)
    \cup {i \in 4..Len(requests) : IsVehicle(i) /\ (i - 1) \in ArrivalsFor(k)}

\* The route request was answered with attributes that hold no 'stops'
StopsAbsent ==
    LET r == RouteExchange.response
        a == ExtractAttributes(r.body).ret
    IN  /\ ~r.err /\ r.status_code = 200 /\ r.json
        /\ Tag(a) = "dict" /\ "stops" \notin DOMAIN Val(a)

\* C12: the k-th record output belongs to the k-th stop of the route's
\* 'stops' list: there are never more records than stops and as many once
\* the workflow is back at the menu, the record of a stop with 'stopID' and
\* 'description' carries that stop's ID and name, every request for that
\* stop or an earlier one was made before the record was output and every
\* request for a later stop after it; when the attributes hold no 'stops'
\* there is no record, no request after the route request, no exception and
\* no error line other than the one about the route's description.
C12_RecordsInStopOrder ==
    InWorkflow =>
        /\ Len(records) <= Len(RouteStops)
        /\ pc = "menu" => Len(records) = Len(RouteStops)
        /\ \A k \in DOMAIN records :
              /\ GoodRouteStop(k) =>
                    /\ records[k].stop_id = Val(RouteStops[k])["stopID"]
                    /\ records[k].description = Val(RouteStops[k])["description"]
              /\ k > 1 => records[k - 1].made <= records[k].made
              /\ \A j \in DOMAIN RouteStops :
                    GoodRouteStop(j) =>
                        \A i \in RequestsFor(j) :
                            IF j <= k THEN i <= records[k].made
                                      ELSE i > records[k].made
        /\ StopsAbsent =>
              /\ records = <<>> /\ Len(requests) = 2
              /\ pc = "menu" /\ exc = ""
              /\ \A n \in DOMAIN console :
                    console[n] \in ErrorLines => console[n] = MsgNoRouteName

\* Two stops with keys were worked through to the menu, with a vehicle
\* request for each: the first record was output after the first stop's two
\* requests and before the second stop's
C12_Witness ==
    /\ InWorkflow /\ pc = "menu" /\ Len(records) = 2 /\ Len(requests) = 6
    /\ GoodRouteStop(1) /\ GoodRouteStop(2)
    /\ RequestsFor(1) = {3, 4} /\ RequestsFor(2) = {5, 6}
    /\ records[1].made = 4 /\ records[2].made = 6
    /\ records[1].stop_id # records[2].stop_id


====
